---- MODULE Spec2Model ----
(***************************************************************************)
(* A model of src/app.py: the CV analysis Streamlit script.                *)
(*                                                                         *)
(* The script is re-executed top to bottom on every user event.  The state *)
(* that survives a run is the file_uploader widget's value and             *)
(* st.session_state; everything else is local to one run.                  *)
(*                                                                         *)
(* Scores are kept exactly: a probability is a whole number of quanta      *)
(* (p = n / Quanta), and a score s percent is the integer s * Quanta.      *)
(* Text is a sequence of one-character strings.                            *)
(***************************************************************************)
EXTENDS Integers, Sequences, FiniteSets, TLC

\* ------------------------------------------------------------- bounds
\* Most files the uploader holds at once.
MaxFiles == 2
\* Most texts handed to rank_candidates on its own.
MaxCvs == 3
\* Resolution of a probability: p is one of 0/Quanta .. Quanta/Quanta.
Quanta == 2
\* Most pages of a pdf handed to extract_text_from_pdf on its own.
MaxPages == 2
\* Longest text of one such page.
MaxPageLen == 2

\* ---------------------------------------------------- program constants
\* num_labels=5: the length of the probability vector.
NumLabels == 5
\* cv[:30]
SnippetLen == 30

PDF_TYPE == "application/pdf"
DOCX_TYPE == "application/vnd.openxmlformats-officedocument.wordprocessingml.document"
TXT_TYPE == "text/plain"

\* ------------------------------------------------------- python values
\* str.strip() with no argument removes these (of the characters modelled).
Whitespace == {" ", "\n"}

RECURSIVE lstrip(_)
lstrip(s) ==
    IF s # <<>> /\ Head(s) \in Whitespace THEN lstrip(Tail(s)) ELSE s

RECURSIVE rstrip(_)
rstrip(s) ==
    IF s # <<>> /\ s[Len(s)] \in Whitespace
    THEN rstrip(SubSeq(s, 1, Len(s) - 1))
    ELSE s

strip(s) == rstrip(lstrip(s))

\* s[:n]
Prefix(s, n) == SubSeq(s, 1, IF Len(s) < n THEN Len(s) ELSE n)

\* What page.extract_text() hands back: a str, or None.  pdfplumber has
\* returned None for a page without characters (a scanned page, a blank one)
\* and returns "" in later releases; the script pins no release and guards
\* against neither, so both are outcomes of the call.
PageStr(s) == [none |-> FALSE, chars |-> s]
PageNone == [none |-> TRUE, chars |-> <<>>]

\* The outcome of a call: a value, or the exception it raised.
Returned(t) == [ok |-> TRUE, text |-> t, err |-> ""]
Raised(e) == [ok |-> FALSE, text |-> <<>>, err |-> e]

\* ------------------------------------------------------ text extraction
\* The loop of extract_text_from_pdf: text += page.extract_text() + "\n".
\* None + "\n" raises TypeError.
RECURSIVE pdf_pages_loop(_, _)
pdf_pages_loop(pages, text) ==
    IF pages = <<>> THEN Returned(text)
    ELSE IF Head(pages).none THEN Raised("TypeError")
    ELSE pdf_pages_loop(Tail(pages), text \o Head(pages).chars \o <<"\n">>)

\* A document: its declared type, whether its parser can open it, the
\* result of extract_text() for each page (pdf), its body text (docx).
extract_text_from_pdf(doc) ==
    IF ~doc.readable THEN Raised("PDFSyntaxError")
    ELSE LET r == pdf_pages_loop(doc.pages, <<>>)
         IN  IF r.ok THEN Returned(strip(r.text)) ELSE r

extract_text_from_word(doc) ==
    IF ~doc.readable THEN Raised("BadZipFile") ELSE Returned(doc.body)

\* ----------------------------------------------------- scoring, ranking
\* torch.softmax(logits, dim=1): NumLabels probabilities that sum to 1.
RECURSIVE SumTo(_, _)
SumTo(v, n) == IF n = 0 THEN 0 ELSE v[n] + SumTo(v, n - 1)

\* What a failure to normalise would hand back: each entry in [0,1], any sum.
UnnormalisedVectors == [1..NumLabels -> 0..Quanta]

ScoreVectors == {v \in [1..NumLabels -> 0..Quanta] : SumTo(v, NumLabels) = Quanta}

\* analyze_cv_text(cv_text): the probabilities of the classifier, whose
\* weights the script does not fix, or the exception the call raises.
NoScores == [k \in 1..NumLabels |-> 0]
AnalyzeOutcomes ==
    {[ok |-> TRUE, probabilities |-> v] : v \in ScoreVectors}
        \cup {[ok |-> FALSE, probabilities |-> NoScores]}

\* 0.5 * x, exact: x is a multiple of 100.
Half(x) == x \div 2

\* cv_scores[0][0] * 100 and cv_scores[0][1] * 100 (python counts from 0).
skills_score(cv_scores) == cv_scores[1] * 100
experience_score(cv_scores) == cv_scores[2] * 100

\* A weighting that forgets the second 0.5.
total_score_unweighted(skills, experience) == Half(skills) + experience

total_score(skills, experience) == Half(skills) + Half(experience)

\* The tuple (cv, total_score, skills_score, experience_score).
Candidate(cv, cv_scores) ==
    LET s == skills_score(cv_scores)
        e == experience_score(cv_scores)
    IN  [cv |-> cv, total_score |-> total_score(s, e),
         skills_score |-> s, experience_score |-> e]

\* A ranking that puts the newest candidate first.
prepend_candidate(all, c) == <<c>> \o all

\* all_candidates.append(...)
append_candidate(all, c) == Append(all, c)

\* A scan that lets a later equal element replace the maximum.
replaces_max_on_tie(x, best) == x.total_score >= best.total_score

\* max(candidates, key=lambda x: x[1]) keeps the first maximal element: a
\* later element replaces it only when its key is strictly greater.
replaces_max(x, best) == x.total_score > best.total_score

RECURSIVE max_scan(_, _)
max_scan(rest, best) ==
    IF rest = <<>> THEN best
    ELSE max_scan(Tail(rest), IF replaces_max(Head(rest), best) THEN Head(rest) ELSE best)

\* A display branch taken whatever the list holds.
always_true(candidates_) == TRUE

\* if candidates:
has_candidates(candidates_) == candidates_ # <<>>

\* ---------------------------------------------------------- documents
Pdf(pages) == [type |-> PDF_TYPE, readable |-> TRUE, pages |-> pages, body |-> <<>>]
Docx(body) == [type |-> DOCX_TYPE, readable |-> TRUE, pages |-> <<>>, body |-> body]

\* The documents a user uploads: two that extract (to "a" and to "b "), a pdf
\* with a page whose extract_text() is None, a pdf that cannot be opened, and
\* a file of another type.
PdfA == Pdf(<<PageStr(<<" ", "a">>), PageStr(<<>>)>>)
DocxB == Docx(<<"b", " ">>)
PdfBlank == Pdf(<<PageStr(<<"a">>), PageNone>>)
PdfCorrupt == [type |-> PDF_TYPE, readable |-> FALSE, pages |-> <<>>, body |-> <<>>]
TxtFile == [type |-> TXT_TYPE, readable |-> TRUE, pages |-> <<>>, body |-> <<"a">>]
Documents == {PdfA, DocxB, PdfBlank, PdfCorrupt, TxtFile}

\* A dispatch whose second branch is a plain else.
is_word_or_other(type) == type # PDF_TYPE

is_pdf(type) == type = PDF_TYPE
is_word(type) == type = DOCX_TYPE

\* The body of the extraction loop for one file: the text to append, nothing
\* (Returned with skip) or the exception.
extract_file(doc) ==
    IF is_pdf(doc.type) THEN [skip |-> FALSE, res |-> extract_text_from_pdf(doc)]
    ELSE IF is_word(doc.type) THEN [skip |-> FALSE, res |-> extract_text_from_word(doc)]
    ELSE [skip |-> TRUE, res |-> Returned(<<>>)]

\* An exception caught around one document, which is then left out.
caught_per_document(res) == FALSE

\* Nothing catches an exception: it ends the script run.
propagates(res) == ~res.ok

\* ------------------------------------------------------- session state
\* A value of st.session_state: the key is absent, None, or a list.
Absent == [kind |-> "absent", items |-> <<>>]
NoneValue == [kind |-> "none", items |-> <<>>]
ListValue(s) == [kind |-> "list", items |-> s]

\* The texts of st.warning and st.success.
NoCandidatesMsg == "No candidates found. Please check the CV content."
ClearedMsg == "CVs cleared successfully!"
NothingToClearMsg == "No CVs uploaded to clear."

\* bool(st.session_state.get(key))
truthy(v) == v.kind = "list" /\ v.items # <<>>

\* A reset that forgets the uploaded files.
reset_candidates_only(ss) == [ss EXCEPT !.candidates = ListValue(<<>>)]

reset_state(ss) ==
    LET d1 == IF ss.uploaded_files.kind # "absent"
              THEN [ss EXCEPT !.uploaded_files = Absent] ELSE ss
        d2 == IF d1.candidates.kind # "absent"
              THEN [d1 EXCEPT !.candidates = Absent] ELSE d1
    IN  [d2 EXCEPT !.uploaded_files = NoneValue, !.candidates = ListValue(<<>>)]

\* ---------------------------------------------------------------- state
VARIABLES
    widget_files,   \* the value of st.file_uploader: it survives reruns
    session_state,  \* st.session_state: keys uploaded_files, candidates
    clicked,        \* the value of st.button("Clear CVs") in this run
    pc,             \* where the script run is; "idle" between runs
    idx,            \* position of the running for loop
    cvs,            \* the texts extracted in this run
    cv_scores,      \* rank_candidates' local: the last probabilities
    all_candidates, \* rank_candidates' local list
    candidates,     \* the list rank_candidates returned
    shown,          \* the per-candidate blocks rendered, with their number
    chart,          \* the bars plotted, with their labels
    best,           \* the best-candidate block rendered: none or one
    messages,       \* st.warning / st.success texts rendered
    exception,      \* the uncaught exception that ended the run, or ""
    since_clear,    \* history: "no", or reset_state ran in "this_run" or
                    \* in an "earlier" run with no upload since
    pdf_doc,        \* the argument of a lone extract_text_from_pdf call
    pdf_out,        \* its outcome
    pdf_pc          \* "off", "call" or "returned"

app_vars == <<widget_files, session_state, clicked, pc, idx, cvs, cv_scores,
              all_candidates, candidates, shown, chart, best, messages,
              exception, since_clear>>
pdf_vars == <<pdf_doc, pdf_out, pdf_pc>>
vars == <<app_vars, pdf_vars>>

\* A fresh session, before the first run.
AppInit ==
    /\ widget_files = <<>>
    /\ session_state = [uploaded_files |-> Absent, candidates |-> Absent]
    /\ clicked = FALSE
    /\ pc = "top"
    /\ idx = 1
    /\ cvs = <<>>
    /\ cv_scores = NoScores
    /\ all_candidates = <<>>
    /\ candidates = <<>>
    /\ shown = <<>>
    /\ chart = <<>>
    /\ best = <<>>
    /\ messages = {}
    /\ exception = ""
    /\ since_clear = "no"

Init ==
    /\ AppInit
    /\ pdf_doc = PdfA
    /\ pdf_out = Returned(<<>>)
    /\ pdf_pc = "off"

\* A user event reruns the script from the top: the page is rendered anew.
Rerun(button) ==
    /\ clicked' = button
    /\ pc' = "top"
    /\ idx' = 1
    /\ cvs' = <<>>
    /\ cv_scores' = NoScores
    /\ all_candidates' = <<>>
    /\ candidates' = <<>>
    /\ shown' = <<>>
    /\ chart' = <<>>
    /\ best' = <<>>
    /\ messages' = {}
    /\ exception' = ""
    /\ UNCHANGED <<session_state, pdf_vars>>

Later(s) == IF s = "no" THEN "no" ELSE "earlier"

\* The user adds a file to the uploader.
UploadFile ==
    /\ pc = "idle"
    /\ Len(widget_files) < MaxFiles
    /\ \E d \in Documents : widget_files' = Append(widget_files, d)
    /\ since_clear' = "no"
    /\ Rerun(FALSE)

\* The user removes a file from the uploader (its x).
RemoveFile ==
    /\ pc = "idle"
    /\ \E i \in 1..Len(widget_files) :
          widget_files' = SubSeq(widget_files, 1, i - 1)
                              \o SubSeq(widget_files, i + 1, Len(widget_files))
    /\ since_clear' = Later(since_clear)
    /\ Rerun(FALSE)

\* The user clicks "Clear CVs".
ClickClear ==
    /\ pc = "idle"
    /\ since_clear' = Later(since_clear)
    /\ Rerun(TRUE)
    /\ UNCHANGED widget_files

\* An uncaught exception ends the run; nothing below the raise is rendered.
Abort(e) ==
    /\ exception' = e
    /\ pc' = "idle"

\* Lines 70-80: the session key, the uploader, the test of its value.
ScriptTop ==
    /\ pc = "top"
    /\ LET ss == IF session_state.uploaded_files.kind = "absent"
                 THEN [session_state EXCEPT !.uploaded_files = NoneValue]
                 ELSE session_state
       IN  IF widget_files # <<>>
           THEN /\ session_state' = [ss EXCEPT !.uploaded_files = ListValue(widget_files)]
                /\ pc' = "extract"
           ELSE /\ session_state' = ss
                /\ pc' = "button"
    /\ cvs' = <<>>
    /\ idx' = 1
    /\ UNCHANGED <<widget_files, clicked, cv_scores, all_candidates, candidates,
                   shown, chart, best, messages, exception, since_clear, pdf_vars>>

\* Lines 84-88: one iteration of the extraction loop.
ExtractStep ==
    /\ pc = "extract"
    /\ LET r == extract_file(widget_files[idx])
       IN  IF propagates(r.res)
           THEN Abort(r.res.err) /\ UNCHANGED <<cvs, idx>>
           ELSE /\ cvs' = IF r.skip \/ ~r.res.ok THEN cvs ELSE Append(cvs, r.res.text)
                /\ IF idx < Len(widget_files)
                   THEN idx' = idx + 1 /\ pc' = "extract"
                   ELSE idx' = 1 /\ pc' = "rank"
                /\ UNCHANGED exception
    /\ UNCHANGED <<widget_files, session_state, clicked, cv_scores, all_candidates,
                   candidates, shown, chart, best, messages, since_clear, pdf_vars>>

\* Lines 37-42: one iteration of rank_candidates' loop.
RankStep ==
    /\ pc = "rank"
    /\ idx <= Len(cvs)
    /\ \E out \in AnalyzeOutcomes :
          IF propagates(out)
          THEN Abort("ClassifierError") /\ UNCHANGED <<cv_scores, all_candidates, idx>>
          ELSE /\ cv_scores' = out.probabilities
               /\ all_candidates' =
                      IF out.ok
                      THEN append_candidate(all_candidates, Candidate(cvs[idx], out.probabilities))
                      ELSE all_candidates
               /\ idx' = idx + 1
               /\ UNCHANGED <<pc, exception>>
    /\ UNCHANGED <<widget_files, session_state, clicked, cvs, candidates, shown,
                   chart, best, messages, since_clear, pdf_vars>>

\* Lines 43 and 90: return all_candidates; candidates = rank_candidates(...).
RankReturn ==
    /\ pc = "rank"
    /\ idx > Len(cvs)
    /\ candidates' = all_candidates
    /\ all_candidates' = <<>>
    /\ cv_scores' = NoScores
    /\ idx' = 1
    /\ pc' = "display"
    /\ UNCHANGED <<widget_files, session_state, clicked, cvs, shown, chart, best,
                   messages, exception, since_clear, pdf_vars>>

\* Lines 95-106: the block of candidate number index + 1.
CandidateBlock(i, c) ==
    [number |-> i, snippet |-> Prefix(c.cv, SnippetLen), total_score |-> c.total_score,
     skills_score |-> c.skills_score, experience_score |-> c.experience_score]

\* Lines 111-129: the bars under the label "CV {i + 1}".
Bars(i, c) ==
    [label |-> <<"CV", i>>, skills_score |-> c.skills_score,
     experience_score |-> c.experience_score]

\* Lines 93-138: the results, or the warning. max() of an empty list raises.
Display ==
    /\ pc = "display"
    /\ IF has_candidates(candidates)
       THEN /\ shown' = [i \in 1..Len(candidates) |-> CandidateBlock(i, candidates[i])]
            /\ chart' = [i \in 1..Len(candidates) |-> Bars(i, candidates[i])]
            /\ IF candidates = <<>>
               THEN Abort("ValueError") /\ UNCHANGED <<best>>
               ELSE /\ best' = <<max_scan(Tail(candidates), Head(candidates))>>
                    /\ pc' = "button"
                    /\ UNCHANGED exception
            /\ UNCHANGED messages
       ELSE /\ messages' = messages \cup {NoCandidatesMsg}
            /\ pc' = "button"
            /\ UNCHANGED <<shown, chart, best, exception>>
    /\ UNCHANGED <<widget_files, session_state, clicked, idx, cvs, cv_scores,
                   all_candidates, candidates, since_clear, pdf_vars>>

\* Lines 141-146: the Clear button's handler, the last step of a run.
ClearButton ==
    /\ pc = "button"
    /\ IF clicked
       THEN IF truthy(session_state.uploaded_files) \/ truthy(session_state.candidates)
            THEN /\ session_state' = reset_state(session_state)
                 /\ messages' = messages \cup {ClearedMsg}
                 /\ since_clear' = "this_run"
            ELSE /\ messages' = messages \cup {NothingToClearMsg}
                 /\ UNCHANGED <<session_state, since_clear>>
       ELSE UNCHANGED <<session_state, messages, since_clear>>
    /\ pc' = "idle"
    /\ UNCHANGED <<widget_files, clicked, idx, cvs, cv_scores, all_candidates,
                   candidates, shown, chart, best, exception, pdf_vars>>

Next ==
    \/ UploadFile
    \/ RemoveFile
    \/ ClickClear
    \/ ScriptTop
    \/ ExtractStep
    \/ RankStep
    \/ RankReturn
    \/ Display
    \/ ClearButton

Spec == Init /\ [][Next]_vars

\* ----------------------------------- extract_text_from_pdf on its own
PageChars == {"a", " ", "\n"}
SeqsUpTo(S, n) == UNION {[1..k -> S] : k \in 0..n}
PageResults == {PageNone} \cup {PageStr(s) : s \in SeqsUpTo(PageChars, MaxPageLen)}
PdfInputs == {Pdf(pages) : pages \in SeqsUpTo(PageResults, MaxPages)}

InitPdf ==
    /\ AppInit
    /\ pdf_doc \in PdfInputs
    /\ pdf_out = Returned(<<>>)
    /\ pdf_pc = "call"

PdfExtract ==
    /\ pdf_pc = "call"
    /\ pdf_out' = extract_text_from_pdf(pdf_doc)
    /\ pdf_pc' = "returned"
    /\ UNCHANGED <<app_vars, pdf_doc>>

NextPdf == PdfExtract

SpecPdf == InitPdf /\ [][NextPdf]_vars

\* ------------------------------- rank_candidates and the display on their own
\* The state at line 90 of a run over a batch of documents that all extract.
InitRank ==
    /\ widget_files \in SeqsUpTo({PdfA, DocxB}, MaxCvs) \ {<<>>}
    /\ session_state = [uploaded_files |-> ListValue(widget_files), candidates |-> Absent]
    /\ clicked = FALSE
    /\ pc = "rank"
    /\ idx = 1
    /\ cvs = [i \in 1..Len(widget_files) |-> extract_file(widget_files[i]).res.text]
    /\ cv_scores = NoScores
    /\ all_candidates = <<>>
    /\ candidates = <<>>
    /\ shown = <<>>
    /\ chart = <<>>
    /\ best = <<>>
    /\ messages = {}
    /\ exception = ""
    /\ since_clear = "no"
    /\ pdf_doc = PdfA
    /\ pdf_out = Returned(<<>>)
    /\ pdf_pc = "off"

NextRank ==
    \/ RankStep
    \/ RankReturn
    \/ Display

SpecRank == InitRank /\ [][NextRank]_vars

\* =============================================================== claims
AcceptedTypes == {PDF_TYPE, DOCX_TYPE}
IsAcceptedDoc(d) == d.type \in AcceptedTypes
\* The uploaded documents of an accepted type, in upload order.
AcceptedFiles == SelectSeq(widget_files, IsAcceptedDoc)
NothingDisplayed == shown = <<>> /\ chart = <<>> /\ best = <<>>

\* C1: whenever a best candidate is rendered it is an element of the
\* candidate list whose totalScore is maximal and strictly greater than the
\* totalScore of every element before it (the first maximum, in upload
\* order); and a non-empty list whose display finished has a best candidate.
C1_BestIsFirstMaximum ==
    /\ best # <<>> =>
          \E i \in 1..Len(candidates) :
             /\ candidates[i] = best[1]
             /\ \A j \in 1..Len(candidates) :
                   candidates[j].total_score <= candidates[i].total_score
             /\ \A j \in 1..(i - 1) :
                   candidates[j].total_score < candidates[i].total_score
    /\ (pc = "button" /\ candidates # <<>>) => best # <<>>

\* Three candidates with totals [lo, hi, hi], two distinct maximal elements:
\* the one at (0-based) index 1 is the best.
C1_Witness ==
    /\ pc = "button"
    /\ Len(candidates) = 3
    /\ candidates[1].total_score < candidates[2].total_score
    /\ candidates[2].total_score = candidates[3].total_score
    /\ candidates[2] # candidates[3]
    /\ best = <<candidates[2]>>

\* C2: once the Clear button's handler has run (it rendered one of its two
\* messages), session_state holds no uploaded files and no candidates: each
\* key is absent, None or an empty list.
C2_ResetEmptiesSession ==
    (pc = "idle" /\ (ClearedMsg \in messages \/ NothingToClearMsg \in messages)) =>
        /\ ~truthy(session_state.uploaded_files)
        /\ ~truthy(session_state.candidates)

\* reset_state ran over a session that held uploaded files.
C2_Witness ==
    /\ pc = "idle"
    /\ ClearedMsg \in messages
    /\ widget_files # <<>>
    /\ session_state = [uploaded_files |-> NoneValue, candidates |-> ListValue(<<>>)]

\* C3: in a run that follows a Clear (reset_state ran in an earlier run and
\* nothing was uploaded since) no document is extracted or scored, nothing
\* is displayed and session_state's uploaded_files stays empty.
C3_ClearReturnsToEmptyState ==
    since_clear = "earlier" =>
        /\ pc \notin {"extract", "rank", "display"}
        /\ cvs = <<>>
        /\ candidates = <<>>
        /\ NothingDisplayed
        /\ ~truthy(session_state.uploaded_files)

\* C4: a document of another type never raises, and once the extraction loop
\* has finished the texts to score are as many as the documents of the two
\* accepted types; the run goes on to rank exactly those.
C4_UnsupportedTypeExcluded ==
    /\ (exception \in {"PDFSyntaxError", "TypeError", "BadZipFile"}) =>
          IsAcceptedDoc(widget_files[idx])
    /\ (pc \in {"rank", "display", "button"} /\ widget_files # <<>>) =>
          Len(cvs) = Len(AcceptedFiles)
    /\ (pc \in {"display", "button"} /\ widget_files # <<>>) =>
          /\ Len(candidates) = Len(AcceptedFiles)
          /\ \A i \in 1..Len(candidates) : candidates[i].cv = cvs[i]

\* A batch with a text file and another document was ranked to the end.
C4_Witness ==
    /\ pc = "button"
    /\ \E i \in 1..Len(widget_files) : widget_files[i] = TxtFile
    /\ Len(candidates) = 1
    /\ best # <<>>
    /\ exception = ""

\* C5: max() never raises on an empty list, and when a non-empty upload
\* yields no text to score, rank_candidates returns the empty list, no
\* candidate and no best candidate is rendered, and the warning is.
C5_EmptyRankingIsNeutral ==
    /\ exception # "ValueError"
    /\ (pc = "display" /\ cvs = <<>>) => candidates = <<>>
    /\ (pc = "button" /\ widget_files # <<>> /\ cvs = <<>>) =>
          /\ candidates = <<>>
          /\ NothingDisplayed
          /\ NoCandidatesMsg \in messages
          /\ exception = ""

C5_Witness ==
    /\ pc = "button"
    /\ widget_files # <<>>
    /\ cvs = <<>>
    /\ NoCandidatesMsg \in messages

\* C6: every candidate's totalScore is the average of its skillsScore and
\* experienceScore, and the candidate just appended has skillsScore and
\* experienceScore 100 times the first and the second probability.
C6_TotalIsAverage ==
    /\ \A c \in {all_candidates[i] : i \in 1..Len(all_candidates)}
                 \cup {candidates[i] : i \in 1..Len(candidates)} :
          2 * c.total_score = c.skills_score + c.experience_score
    /\ (pc = "rank" /\ all_candidates # <<>>) =>
          LET c == all_candidates[Len(all_candidates)]
          IN  /\ c.skills_score = 100 * cv_scores[1]
              /\ c.experience_score = 100 * cv_scores[2]

\* A candidate scored from probabilities whose first two entries are both
\* positive.
C6_Witness ==
    /\ pc = "rank"
    /\ all_candidates # <<>>
    /\ cv_scores[1] > 0
    /\ cv_scores[2] > 0
    /\ all_candidates[Len(all_candidates)].total_score
          = 50 * (cv_scores[1] + cv_scores[2])

\* C7: when the display of a run has finished, there is one candidate per
\* accepted document, the i-th carries the text of the i-th accepted
\* document, its block has number i and its bars the label "CV i" (i from 1).
C7_UploadOrderPreserved ==
    (pc = "button" /\ widget_files # <<>>) =>
        /\ Len(candidates) = Len(AcceptedFiles)
        /\ \A i \in 1..Len(candidates) :
              candidates[i].cv = extract_file(AcceptedFiles[i]).res.text
        /\ candidates # <<>> =>
              /\ Len(shown) = Len(candidates)
              /\ Len(chart) = Len(candidates)
              /\ \A i \in 1..Len(candidates) :
                    /\ shown[i].number = i
                    /\ shown[i].snippet = Prefix(candidates[i].cv, SnippetLen)
                    /\ shown[i].total_score = candidates[i].total_score
                    /\ chart[i].label = <<"CV", i>>
                    /\ chart[i].skills_score = candidates[i].skills_score
                    /\ chart[i].experience_score = candidates[i].experience_score

\* Two documents with different texts were displayed.
C7_Witness ==
    /\ pc = "button"
    /\ Len(candidates) = 2
    /\ candidates[1].cv # candidates[2].cv
    /\ Len(shown) = 2

\* The text extracted from a page: none when extract_text() is None.
PageText(page) == page.chars
\* Each page's text followed by a newline, in page order.
RECURSIVE Joined(_)
Joined(pages) ==
    IF pages = <<>> THEN <<>> ELSE PageText(Head(pages)) \o <<"\n">> \o Joined(Tail(pages))
\* t is s without the whitespace at its ends.
IsTrimOf(t, s) ==
    /\ t # <<>> => t[1] \notin Whitespace /\ t[Len(t)] \notin Whitespace
    /\ \E a \in 0..Len(s) :
          /\ a + Len(t) <= Len(s)
          /\ \A k \in 1..Len(t) : s[a + k] = t[k]
          /\ \A k \in 1..a : s[k] \in Whitespace
          /\ \A k \in (a + Len(t) + 1)..Len(s) : s[k] \in Whitespace

\* C8: a call of extract_text_from_pdf returns, for every page sequence, the
\* pages' texts each followed by a newline, joined in page order, without
\* the whitespace at either end.
C8_PdfTextIsTrimmedJoin ==
    pdf_pc = "returned" =>
        /\ pdf_out.ok
        /\ IsTrimOf(pdf_out.text, Joined(pdf_doc.pages))

\* C8, for the page sequences in which every extract_text() is a str.
C8_HoldsWhenEveryPageIsStr ==
    (pdf_pc = "returned" /\ \A k \in 1..Len(pdf_doc.pages) : ~pdf_doc.pages[k].none) =>
        /\ pdf_out.ok
        /\ IsTrimOf(pdf_out.text, Joined(pdf_doc.pages))

\* C9: a run in which a document fails to extract, or in which an exception
\* was raised, renders no candidate, no chart and no best candidate, and the
\* run is over: nothing is tried again.
C9_FailureAbortsBatch ==
    /\ (\E i \in 1..Len(widget_files) : ~extract_file(widget_files[i]).res.ok) =>
          NothingDisplayed /\ candidates = <<>>
    /\ exception # "" =>
          NothingDisplayed /\ candidates = <<>> /\ pc = "idle" /\ messages = {}

\* A document failed after another had been extracted.
C9_Witness ==
    /\ exception \in {"PDFSyntaxError", "TypeError"}
    /\ cvs # <<>>
    /\ idx = 2
    /\ pc = "idle"

\* C10: every candidate has skillsScore and experienceScore in [0,100],
\* their sum at most 100 and totalScore in [0,50]; so has the best one.
\* (A score of s percent is the integer s * Quanta.)
C10_TotalAtMostFifty ==
    \A c \in {all_candidates[i] : i \in 1..Len(all_candidates)}
                \cup {candidates[i] : i \in 1..Len(candidates)}
                \cup {best[i] : i \in 1..Len(best)} :
        /\ 0 <= c.skills_score /\ c.skills_score <= 100 * Quanta
        /\ 0 <= c.experience_score /\ c.experience_score <= 100 * Quanta
        /\ c.skills_score + c.experience_score <= 100 * Quanta
        /\ 0 <= c.total_score /\ c.total_score <= 50 * Quanta

\* The bound is met: a best candidate with totalScore 50.
C10_Witness ==
    /\ best # <<>>
    /\ best[1].total_score = 50 * Quanta
    /\ \E i \in 1..Len(candidates) : candidates[i].total_score < 50 * Quanta

====
